---- MODULE Spec2Model ----
(***************************************************************************)
(* TargetsToConfiguration (tools/upgrade/commands/                         *)
(* targets_to_configuration.py): the directory coverage resolver           *)
(* (_gather_directories), the per-directory conversion (convert_directory) *)
(* with its threshold policy, and the top-level run with its               *)
(* restart-on-fallback recursion.                                           *)
(*                                                                         *)
(* A string is a sequence of one-character strings, a Path is a sequence   *)
(* of components (each component a string), so that str(), split("/"),     *)
(* "/".join and startswith are computed character by character.            *)
(* An Optional[int] is <<>> (None) or <<n>>.                                *)
(***************************************************************************)
EXTENDS Integers, Sequences, FiniteSets, TLC

\* ------------------------------------------------------------------ bounds
MaxErrors == 2       \* most errors the checker reports against one file
MaxFiles == 2        \* most files the checker reports per configuration
MaxThreshold == 1    \* largest value given to --glob / --fixme-threshold
MaxConfigs == 2      \* most pre-existing .pyre_configuration.local files
MaxRunDepth == 3     \* cap on nested run() frames explored

\* ----------------------------------------------------------------- strings
Slash == <<"/">>

\* code point order of the characters used
Ord(c) ==
    CASE c = "." -> 46
      [] c = "/" -> 47
      [] c = ":" -> 58
      [] c = "a" -> 97
      [] c = "b" -> 98
      [] c = "c" -> 99
      [] c = "d" -> 100
      [] c = "r" -> 114
      [] c = "x" -> 120
      [] c = "y" -> 121

\* str.startswith
StartsWith(s, prefix) ==
    /\ Len(prefix) <= Len(s)
    /\ SubSeq(s, 1, Len(prefix)) = prefix

\* str < str (Python compares strings by code point, shorter prefix first)
RECURSIVE StrLess(_, _)
StrLess(s, t) ==
    IF s = <<>> THEN t # <<>>
    ELSE IF t = <<>> THEN FALSE
    ELSE IF Head(s) = Head(t) THEN StrLess(Tail(s), Tail(t))
    ELSE Ord(Head(s)) < Ord(Head(t))

\* list-of-str < list-of-str (Python list comparison)
RECURSIVE ListLess(_, _)
ListLess(p, q) ==
    IF p = <<>> THEN q # <<>>
    ELSE IF q = <<>> THEN FALSE
    ELSE IF Head(p) = Head(q) THEN ListLess(Tail(p), Tail(q))
    ELSE StrLess(Head(p), Head(q))

\* "/".join(components), which is also str(Path(components))
RECURSIVE Join(_)
Join(components) ==
    IF components = <<>> THEN <<>>
    ELSE IF Len(components) = 1 THEN Head(components)
    ELSE Head(components) \o Slash \o Join(Tail(components))

Str(path) == Join(path)

\* str.split("/")
RECURSIVE SplitFrom(_, _)
SplitFrom(s, current) ==
    IF s = <<>> THEN <<current>>
    ELSE IF Head(s) = "/" THEN <<current>> \o SplitFrom(Tail(s), <<>>)
    ELSE SplitFrom(Tail(s), Append(current, Head(s)))

Split(s) == SplitFrom(s, <<>>)

\* Path(string)
ToPath(s) == Split(s)

\* ------------------------------------------------------------- file system
Root == << <<"r">> >>
DirA == << <<"r">>, <<"a">> >>
DirAB == << <<"r">>, <<"a", "b">> >>
DirAC == << <<"r">>, <<"a">>, <<"c">> >>
DirAD == << <<"r">>, <<"a">>, <<"d">> >>

\* the directories a tree may hold: r, r/a, r/ab, r/a/c
Universe == {Root, DirA, DirAB, DirAC}

\* the widest tree: r/a/d beside r/a/c
Everywhere == Universe \cup {DirAD}

Parent(path) == SubSeq(path, 1, Len(path) - 1)

\* component-aware containment: d is at or beneath ancestor
IsUnder(d, ancestor) ==
    /\ Len(ancestor) <= Len(d)
    /\ SubSeq(d, 1, Len(ancestor)) = ancestor

Trees ==
    {t \in SUBSET Universe :
        /\ Root \in t
        /\ \A d \in t : d = Root \/ Parent(d) \in t}

\* sequences over S without repetition, of length at most n
RECURSIVE Arrangements(_, _)
Arrangements(S, n) ==
    IF n = 0 \/ S = {} THEN {<<>>}
    ELSE {<<>>} \cup
         UNION {{<<x>> \o rest : rest \in Arrangements(S \ {x}, n - 1)} : x \in S}

\* the elements of a sequence
Range(seq) == {seq[i] : i \in 1..Len(seq)}

\* a set of paths as a list in ascending (components) order
RECURSIVE Ascending(_)
Ascending(S) ==
    IF S = {} THEN <<>>
    ELSE LET least == CHOOSE x \in S : \A y \in S \ {x} : ListLess(x, y)
         IN <<least>> \o Ascending(S \ {least})

\* every directory there can be, ascending
UniverseAscending == Ascending(Everywhere)

\* the directories of S in the order a listing reports them
SortedPaths(S) == SelectSeq(UniverseAscending, LAMBDA d : d \in S)

\* -------------------------------------------------------------- collaborators
\* the name of a local configuration file, kept as one token
ConfigurationName == <<".pyre_configuration.local">>

\* find_files(directory, ".pyre_configuration.local"): the path strings of the
\* configuration files at or beneath directory, in the order the search
\* reports them (order: every candidate directory, in reporting order)
RECURSIVE find_files(_, _, _)
find_files(directory, existing, order) ==
    IF order = <<>> THEN <<>>
    ELSE (IF Head(order) \in existing /\ IsUnder(Head(order), directory)
          THEN <<Str(Head(order)) \o Slash \o ConfigurationName>>
          ELSE <<>>)
         \o find_files(directory, existing, Tail(order))

\* find_directories(path): the directories directly inside path
find_directories(path, dirs) ==
    SortedPaths({d \in dirs : Len(d) = Len(path) + 1 /\ IsUnder(d, path)})

\* ---------------------------------------------------- _gather_directories
\* str.replace(old, ""): drop every occurrence of old
RECURSIVE Remove(_, _)
Remove(s, old) ==
    IF s = <<>> THEN <<>>
    ELSE IF StartsWith(s, old) THEN Remove(SubSeq(s, Len(old) + 1, Len(s)), old)
    ELSE <<Head(s)>> \o Remove(Tail(s), old)

\* [directory.split("/") for directory in strings], also
\* [Path(directory) for directory in strings]
RECURSIVE SplitAll(_)
SplitAll(strings) ==
    IF strings = <<>> THEN <<>>
    ELSE <<Split(Head(strings))>> \o SplitAll(Tail(strings))

\* the sort key (len(directory), directory)
KeyLess(p, q) == Len(p) < Len(q) \/ (Len(p) = Len(q) /\ ListLess(p, q))

RECURSIVE InsertSorted(_, _)
InsertSorted(sortedSeq, x) ==
    IF sortedSeq = <<>> THEN <<x>>
    ELSE IF KeyLess(x, Head(sortedSeq)) THEN <<x>> \o sortedSeq
    ELSE <<Head(sortedSeq)>> \o InsertSorted(Tail(sortedSeq), x)

\* sorted(seq, key=lambda directory: (len(directory), directory)), stable
RECURSIVE Sorted(_)
Sorted(seq) ==
    IF seq = <<>> THEN <<>>
    ELSE InsertSorted(Sorted(SubSeq(seq, 1, Len(seq) - 1)), seq[Len(seq)])

\* all(not configuration_directory.startswith(str(subdirectory)) ...)
NotCovered(subdirectory, configuration_directories) ==
    \A i \in 1..Len(configuration_directories) :
        ~StartsWith(configuration_directories[i], Str(subdirectory))

\* the missing sub-directories among all_subdirectories, in order
RECURSIVE MissingAmong(_, _)
MissingAmong(all_subdirectories, configuration_directories) ==
    IF all_subdirectories = <<>> THEN <<>>
    ELSE (IF NotCovered(Head(all_subdirectories), configuration_directories)
          THEN <<Head(all_subdirectories)>>
          ELSE <<>>)
         \o MissingAmong(Tail(all_subdirectories), configuration_directories)

\* the loop "for directory in sorted_directories" that fills in missing
\* coverage: one level of depth per directory deeper than current_depth
RECURSIVE FillMissing(_, _, _, _)
FillMissing(sorted_directories, current_depth, configuration_directories, dirs) ==
    IF sorted_directories = <<>> THEN <<>>
    ELSE LET directory == Head(sorted_directories) IN
         IF Len(directory) <= current_depth
         THEN FillMissing(Tail(sorted_directories), current_depth,
                          configuration_directories, dirs)
         ELSE MissingAmong(
                  find_directories(
                      ToPath(Join(SubSeq(directory, 1, current_depth))), dirs),
                  configuration_directories)
              \o FillMissing(Tail(sorted_directories), current_depth + 1,
                             configuration_directories, dirs)

\* the order in which the resolver's result lists the directories it knows
\* of and the missing ones
ResultOrder(configuration_directories, missing_directories) ==
    SplitAll(configuration_directories) \o missing_directories

\* lines 206-209: configuration.replace("/.pyre_configuration.local", "")
RECURSIVE DirectoriesOf(_)
DirectoriesOf(configurations) ==
    IF configurations = <<>> THEN <<>>
    ELSE <<Remove(Head(configurations), Slash \o ConfigurationName)>>
         \o DirectoriesOf(Tail(configurations))

\* lines 206-233 once the search has reported configurations
Resolve(subdirectory, configuration_directories, dirs) ==
    IF Len(configuration_directories) = 0
    THEN <<ToPath(Str(subdirectory))>>
    ELSE ResultOrder(configuration_directories,
                     FillMissing(Sorted(SplitAll(configuration_directories)), 1,
                                 configuration_directories, dirs))

\* _gather_directories(subdirectory) on a tree dirs whose configuration
\* files the search reports as configurations
gather_directories(subdirectory, configurations, dirs) ==
    Resolve(subdirectory, DirectoriesOf(configurations), dirs)

\* ------------------------------------------------------------ Optional[int]
None == <<>>
Some(n) == <<n>>

\* truth value of an Optional[int] in a condition: None and 0 are false
Truthy(option) == option # None /\ option[1] # 0

\* "threshold and error_count > threshold"
Exceeds(error_count, threshold) ==
    Truthy(threshold) /\ error_count > threshold[1]

\* ------------------------------------------------------------------- state
VARIABLES
    tree,         \* the directories beneath (and including) the root
    reported,     \* the pre-existing configuration directories, as found
    targets,      \* directory -> names of the type-check targets of its TARGETS
    arguments,    \* [glob, fixme_threshold, lint, no_commit]
    glob,         \* self._glob
    head,         \* the committed state of the working copy
    wc,           \* the working copy
    stack,        \* the frames of run(), the innermost last
    entered,      \* times the body of run() was entered
    fallbacks,    \* times the glob-threshold fallback fired
    submissions,  \* the calls of submit_changes, in order
    last,         \* the latest threshold decision
    completed     \* what each earlier invocation left behind

vars == <<tree, reported, targets, arguments, glob, head, wc, stack,
          entered, fallbacks, submissions, last, completed>>

inputs == <<tree, reported, targets, arguments>>

TargetsFile == <<"TARGETS">>

\* the order in which a file search reports directories: the pre-existing
\* configurations as reported, then any other directory
searchOrder == reported \o SortedPaths(Everywhere \ Range(reported))

\* find_targets(directory, pyre_only): build-file directory (a string) ->
\* target names, for the build files at or beneath directory declaring any
find_targets(directory) ==
    LET found == SortedPaths({d \in tree : IsUnder(d, directory) /\ targets[d] # <<>>})
    IN  [n \in 1..Len(found) |-> [path |-> Str(found[n]), names |-> targets[found[n]]]]

\* get_filesystem().list(str(directory), patterns=["**/TARGETS"]): the build
\* files beneath directory, relative to it
list_targets_files(directory) ==
    LET found == SortedPaths({d \in tree : IsUnder(d, directory)})
    IN  [n \in 1..Len(found) |->
            SubSeq(found[n], Len(directory) + 1, Len(found[n])) \o <<TargetsFile>>]

\* Configuration.add_targets
add_targets(document, new_targets) ==
    [document EXCEPT !.targets = @ \o new_targets]

RECURSIVE Deduplicated(_, _)
Deduplicated(seq, seen) ==
    IF seq = <<>> THEN <<>>
    ELSE IF Head(seq) \in seen THEN Deduplicated(Tail(seq), seen)
    ELSE <<Head(seq)>> \o Deduplicated(Tail(seq), seen \cup {Head(seq)})

\* Configuration.deduplicate_targets
deduplicate_targets(document) ==
    [document EXCEPT !.targets = Deduplicated(@, {})]

\* Repository.revert_all(remove_untracked): tracked files go back to their
\* committed content; files unknown to the committed state are deleted only
\* when remove_untracked
revert_all(copy, committed, remove_untracked) ==
    IF remove_untracked THEN committed
    ELSE [committed EXCEPT
            !.configs = [d \in DOMAIN copy.configs |->
                            IF d \in DOMAIN committed.configs
                            THEN committed.configs[d] ELSE copy.configs[d]]]

\* the checker's answer: up to MaxFiles files with errors, each with
\* 1..MaxErrors errors (a file's count is drawn when the loop reaches it)
FileCounts == 0..MaxFiles

ErrorCounts == 1..MaxErrors

Thresholds == {None} \cup {Some(n) : n \in 0..MaxThreshold}

\* ------------------------------------------------------------------ frames
top == stack[Len(stack)]

SetTop(frame) == [stack EXCEPT ![Len(stack)] = frame]

NoDecision == [made |-> FALSE]

NewFrame ==
    [pc |-> "start", directories |-> <<>>, i |-> 1, converted |-> <<>>,
     new_targets |-> <<>>, targets_files |-> <<>>, glob_threshold |-> None,
     files |-> 0, k |-> 1, fellBack |-> FALSE, steps |-> <<>>]

directory == top.directories[top.i]

CleanCopy(documents) ==
    [configs |-> documents, added |-> {}, stripped |-> {}, cleaned |-> {},
     suppressed |-> {}, ignored |-> {}, formatted |-> {}, rechecked |-> {}]

\* -------------------------------------------------------------------- Init
NameX == <<"x">>

\* the document of a configuration that exists before the invocation
ExistingDocument(d) ==
    [targets |-> << <<"/", "/">> \o Str(d) \o <<":">> \o NameX >>, strict |-> TRUE]

Arguments ==
    [glob : Thresholds, fixme_threshold : Thresholds, lint : BOOLEAN,
     no_commit : {FALSE}]

\* the state after construction (__init__), the invocation about to call run()
Constructed ==
    /\ glob = arguments.glob
    /\ head = CleanCopy([d \in Range(reported) |-> ExistingDocument(d)])
    /\ wc = head
    /\ stack = <<NewFrame>>
    /\ entered = 0
    /\ fallbacks = 0
    /\ submissions = <<>>
    /\ last = NoDecision
    /\ completed = <<>>

\* orchestration: the whole tree, at most one pre-existing configuration
Init ==
    /\ tree = Universe
    /\ reported \in {<<>>} \cup {<<d>> : d \in tree}
    /\ targets \in [tree -> {<<>>, <<NameX>>}]
    /\ arguments \in Arguments
    /\ Constructed

\* ----------------------------------------------------------------- run()
\* what a file search can report: configuration files of any directories
\* of the tree, each once
Reports ==
    {find_files(Root, Range(found), found) :
        found \in Arrangements(Everywhere, Cardinality(Everywhere))}

\* _gather_directories(Root) for every tree and report, resolved once
Resolved ==
    {[dirs |-> dirs, configurations |-> configurations,
      directories |-> gather_directories(Root, configurations, dirs)] :
        dirs \in Trees \cup {Everywhere}, configurations \in Reports}

\* line 177: self._gather_directories(subdirectory)
configuration_directories ==
    LET configurations == find_files(Root, DOMAIN wc.configs, searchOrder)
    IN  (CHOOSE entry \in Resolved :
            entry.dirs = tree /\ entry.configurations = configurations).directories

\* lines 171-178: resolve the coverage set, nothing converted yet
RunStart ==
    /\ stack # <<>>
    /\ top.pc = "start"
    /\ stack' = SetTop([top EXCEPT
            !.pc = "visit",
            !.directories = configuration_directories,
            !.i = 1,
            !.converted = <<>>])
    /\ entered' = entered + 1
    /\ last' = NoDecision
    /\ UNCHANGED <<inputs, completed, glob, head, wc, fallbacks, submissions>>

\* line 180-183: no converted directory's string is a prefix of this one's
NotYetConverted(d, converted) ==
    \A n \in 1..Len(converted) : StartsWith(Str(d), Str(converted[n])) = FALSE

\* the loop skips a directory under one already converted
VisitSkip ==
    /\ stack # <<>>
    /\ top.pc = "visit"
    /\ top.i <= Len(top.directories)
    /\ ~NotYetConverted(directory, top.converted)
    /\ stack' = SetTop([top EXCEPT !.i = @ + 1])
    /\ UNCHANGED <<inputs, completed, glob, head, wc, entered, fallbacks, submissions, last>>

\* the loop calls convert_directory(directory)
VisitConvert ==
    /\ stack # <<>>
    /\ top.pc = "visit"
    /\ top.i <= Len(top.directories)
    /\ NotYetConverted(directory, top.converted)
    /\ stack' = SetTop([top EXCEPT !.pc = "discover", !.steps = <<>>])
    /\ UNCHANGED <<inputs, completed, glob, head, wc, entered, fallbacks, submissions, last>>

\* convert_directory returns to the loop: converted.append(directory)
Returned(frame) ==
    [frame EXCEPT
        !.pc = "visit",
        !.converted = Append(@, frame.directories[frame.i]),
        !.i = @ + 1,
        !.new_targets = <<>>,
        !.targets_files = <<>>,
        !.glob_threshold = None,
        !.files = 0,
        !.k = 1]

\* ---------------------------------------------------- convert_directory()
\* lines 96-102: the wildcard target and every build file beneath directory
GlobTargets(d) == << <<"/", "/">> \o Str(d) \o <<"/", ".", ".", ".">> >>

GlobTargetsFiles(d) ==
    LET listed == list_targets_files(d)
    IN  [n \in 1..Len(listed) |-> d \o listed[n]]

\* lines 104-108: one target per discovered name, one build file per key
RECURSIVE ExplicitTargets(_)
ExplicitTargets(all_targets) ==
    IF all_targets = <<>> THEN <<>>
    ELSE LET item == Head(all_targets)
         IN  [n \in 1..Len(item.names) |->
                 <<"/", "/">> \o item.path \o <<":">> \o item.names[n]]
             \o ExplicitTargets(Tail(all_targets))

ExplicitTargetsFiles(all_targets) ==
    [n \in 1..Len(all_targets) |-> ToPath(all_targets[n].path) \o <<TargetsFile>>]

\* glob mode stripping only the discovered build files
ModeSelect_StripsDiscovered(d, all_targets) ==
    IF Truthy(glob)
    THEN [new_targets |-> GlobTargets(d),
          targets_files |-> ExplicitTargetsFiles(all_targets)]
    ELSE [new_targets |-> ExplicitTargets(all_targets),
          targets_files |-> ExplicitTargetsFiles(all_targets)]

\* lines 95-108: mode selection
ModeSelect(d, all_targets) ==
    IF Truthy(glob)
    THEN [new_targets |-> GlobTargets(d), targets_files |-> GlobTargetsFiles(d)]
    ELSE [new_targets |-> ExplicitTargets(all_targets),
          targets_files |-> ExplicitTargetsFiles(all_targets)]

\* going on with an empty mapping
NoTargets_Ignored(all_targets) == FALSE

\* line 92: "if not all_targets"
NoTargets(all_targets) == all_targets = <<>>

\* lines 91-108: discovery and mode selection
Discover ==
    /\ stack # <<>>
    /\ top.pc = "discover"
    /\ \E all_targets \in {find_targets(directory)} :
        IF NoTargets(all_targets)
        THEN stack' = SetTop(Returned(top))
        ELSE \E mode \in {ModeSelect(directory, all_targets)} :
                stack' = SetTop([top EXCEPT
                    !.pc = "write",
                    !.new_targets = mode.new_targets,
                    !.targets_files = mode.targets_files])
    /\ UNCHANGED <<inputs, completed, glob, head, wc, entered, fallbacks, submissions, last>>

\* amending without the deduplication
Merged_NotDeduplicated(document, new_targets) ==
    add_targets(document, new_targets)

\* lines 121-122: add_targets(new_targets), then deduplicate_targets()
Merged(document, new_targets) ==
    deduplicate_targets(add_targets(document, new_targets))

\* registering whatever was written
Registered_Always(added, exists, configuration_path) ==
    added \cup {configuration_path}

\* lines 111, 131: add_paths([configuration_path]) in the creating branch only
Registered(added, exists, configuration_path) ==
    IF exists THEN added ELSE added \cup {configuration_path}

\* lines 110-131: amend the existing configuration, or create one and
\* register it with version control
WriteConfig ==
    /\ stack # <<>>
    /\ top.pc = "write"
    /\ LET exists == directory \in DOMAIN wc.configs
           document ==
               IF exists
               THEN Merged(wc.configs[directory], top.new_targets)
               ELSE [targets |-> top.new_targets]
           written == [d \in DOMAIN wc.configs \cup {directory} |->
                          IF d = directory THEN document ELSE wc.configs[d]]
       IN  wc' = [wc EXCEPT
                !.configs = written,
                !.added = Registered(@, exists, directory)]
    /\ stack' = SetTop([top EXCEPT !.pc = "strip", !.steps = Append(@, "write")])
    /\ UNCHANGED <<inputs, completed, glob, head, entered, fallbacks, submissions, last>>

\* the checker invoked on build files not stripped
StripLegacyFields_Omitted ==
    /\ stack # <<>>
    /\ top.pc = "strip"
    /\ stack' = SetTop([top EXCEPT !.pc = "check"])
    /\ UNCHANGED <<inputs, completed, glob, head, wc, entered, fallbacks,
                   submissions, last>>

\* lines 133-135: remove_target_typing_fields, remove_non_pyre_ignores
StripLegacyFields ==
    /\ stack # <<>>
    /\ top.pc = "strip"
    /\ wc' = [wc EXCEPT
            !.stripped = @ \cup Range(top.targets_files),
            !.cleaned = @ \cup {directory}]
    /\ stack' = SetTop([top EXCEPT !.pc = "check", !.steps = Append(@, "strip")])
    /\ UNCHANGED <<inputs, completed, glob, head, entered, fallbacks, submissions, last>>

\* lines 137-139: configuration.get_errors(), and the thresholds read
TypeCheck ==
    /\ stack # <<>>
    /\ top.pc = "check"
    /\ \E files \in FileCounts :
        stack' = SetTop([top EXCEPT
            !.pc = "eval",
            !.steps = Append(@, "check"),
            !.files = files,
            !.k = 1,
            !.glob_threshold = glob])
    /\ UNCHANGED <<inputs, completed, glob, head, wc, entered, fallbacks, submissions, last>>

\* ------------------------------------------------------- threshold policy
\* reverting without removing untracked files
RemoveUntracked_Kept == FALSE

\* line 151: revert_all(remove_untracked=True)
RemoveUntracked == TRUE

\* glob mode left as it was
DisabledGlob_Unchanged == glob

\* line 152: self._glob = None
DisabledGlob == None

\* line 144: "glob_threshold and error_count > glob_threshold"
ExceedsGlob(error_count, glob_threshold) == Exceeds(error_count, glob_threshold)

\* line 154: "error_threshold and error_count > error_threshold"
ExceedsFixme(error_count, error_threshold) == Exceeds(error_count, error_threshold)

Evaluating ==
    /\ stack # <<>>
    /\ top.pc = "eval"
    /\ top.k <= top.files

Decision(error_count, outcome) ==
    [made |-> TRUE, directory |-> directory, file |-> top.k,
     error_count |-> error_count, glob_threshold |-> top.glob_threshold,
     outcome |-> outcome]

\* lines 144-153: revert, disable glob mode, and "return self.run()"
FallbackRestart ==
    /\ Evaluating
    /\ Len(stack) < MaxRunDepth
    /\ \E error_count \in ErrorCounts :
        /\ ExceedsGlob(error_count, top.glob_threshold)
        /\ last' = Decision(error_count, "fallback")
    /\ wc' = revert_all(wc, head, RemoveUntracked)
    /\ glob' = DisabledGlob
    /\ stack' = Append(SetTop([top EXCEPT !.pc = "restarting", !.fellBack = TRUE,
                                          !.steps = Append(@, "decide")]),
                       NewFrame)
    /\ fallbacks' = fallbacks + 1
    /\ UNCHANGED <<inputs, completed, head, entered, submissions>>

\* lines 154-160: add_local_mode(path, LocalMode.IGNORE)
FileIgnore ==
    /\ Evaluating
    /\ \E error_count \in ErrorCounts :
        /\ ~ExceedsGlob(error_count, top.glob_threshold)
        /\ ExceedsFixme(error_count, arguments.fixme_threshold)
        /\ last' = Decision(error_count, "ignore")
    /\ wc' = [wc EXCEPT !.ignored = @ \cup {<<directory, top.k>>}]
    /\ stack' = SetTop([top EXCEPT !.k = @ + 1, !.steps = Append(@, "decide")])
    /\ UNCHANGED <<inputs, completed, glob, head, entered, fallbacks, submissions>>

\* lines 161-162: self._suppress_errors(Errors(errors))
InlineSuppress ==
    /\ Evaluating
    /\ \E error_count \in ErrorCounts :
        /\ ~ExceedsGlob(error_count, top.glob_threshold)
        /\ ~ExceedsFixme(error_count, arguments.fixme_threshold)
        /\ last' = Decision(error_count, "suppress")
    /\ wc' = [wc EXCEPT !.suppressed = @ \cup {<<directory, top.k>>}]
    /\ stack' = SetTop([top EXCEPT !.k = @ + 1, !.steps = Append(@, "decide")])
    /\ UNCHANGED <<inputs, completed, glob, head, entered, fallbacks, submissions>>

Evaluated ==
    /\ stack # <<>>
    /\ top.pc = "eval"
    /\ top.k > top.files

\* lines 165-168: format, and when it changed anything check again (without
\* cleaning) and suppress; then convert_directory returns
LintPass ==
    /\ Evaluated
    /\ arguments.lint
    /\ \E changed \in BOOLEAN :
        wc' = IF changed
              THEN [wc EXCEPT !.formatted = @ \cup {directory},
                              !.rechecked = @ \cup {directory}]
              ELSE wc
    /\ stack' = SetTop(Returned([top EXCEPT !.steps = Append(@, "format")]))
    /\ last' = NoDecision
    /\ UNCHANGED <<inputs, completed, glob, head, entered, fallbacks, submissions>>

\* line 165 with --lint unset: convert_directory returns
FinishConversion ==
    /\ Evaluated
    /\ ~arguments.lint
    /\ stack' = SetTop(Returned(top))
    /\ last' = NoDecision
    /\ UNCHANGED <<inputs, completed, glob, head, wc, entered, fallbacks, submissions>>

\* ------------------------------------------------------- the end of run()
\* lines 187-202: the summary and submit_changes; run() returns
SubmitChanges ==
    /\ stack # <<>>
    /\ top.pc = "visit"
    /\ top.i > Len(top.directories)
    /\ submissions' = Append(submissions,
            [commit |-> ~arguments.no_commit,
             expanded |-> IF Truthy(glob) THEN glob ELSE None,
             depth |-> Len(stack)])
    /\ head' = IF arguments.no_commit THEN head ELSE wc
    /\ stack' = SubSeq(stack, 1, Len(stack) - 1)
    /\ UNCHANGED <<inputs, completed, glob, wc, entered, fallbacks, last>>

\* line 153 then 185: the restarted run() has returned into
\* convert_directory, which returns to the loop that called it
RestartReturn ==
    /\ stack # <<>>
    /\ top.pc = "restarting"
    /\ stack' = SetTop(Returned(top))
    /\ UNCHANGED <<inputs, completed, glob, head, wc, entered, fallbacks, submissions, last>>

Done == stack = <<>>

Next ==
    \/ RunStart
    \/ VisitSkip
    \/ VisitConvert
    \/ Discover
    \/ WriteConfig
    \/ StripLegacyFields
    \/ TypeCheck
    \/ FallbackRestart
    \/ FileIgnore
    \/ InlineSuppress
    \/ LintPass
    \/ FinishConversion
    \/ SubmitChanges
    \/ RestartReturn

Spec == Init /\ [][Next]_vars

\* termination: as Init, with type-check targets in every directory or in none
FairInit ==
    /\ Init
    /\ targets \in {[d \in tree |-> <<>>], [d \in tree |-> <<NameX>>]}

\* every call returns and the interpreter keeps executing: the next
\* statement is always taken
FairSpec == FairInit /\ [][Next]_vars /\ WF_vars(Next)

\* coverage resolution: every tree, up to MaxConfigs pre-existing
\* configurations in any reporting order
CoverageInit ==
    /\ tree \in Trees
    /\ reported \in Arrangements(tree, MaxConfigs)
    /\ targets \in [tree -> {<<>>, <<NameX>>}]
    /\ arguments \in [glob : {None, Some(MaxThreshold)},
                      fixme_threshold : {Some(MaxThreshold)},
                      lint : BOOLEAN, no_commit : {FALSE}]
    /\ Constructed

CoverageSpec == CoverageInit /\ [][Next]_vars

\* ------------------------------------------------------ a second invocation
MaxRuns == 2         \* invocations of the command on the same tree

\* the command is run again, with the same arguments, on the tree the
\* completed invocation left (and committed): __init__ again, run() next
Rerun ==
    /\ Done
    /\ Len(completed) < MaxRuns - 1
    /\ completed' = Append(completed,
            [configs |-> wc.configs, fallbacks |-> fallbacks])
    /\ wc' = CleanCopy(wc.configs)
    /\ head' = CleanCopy(wc.configs)
    /\ glob' = arguments.glob
    /\ stack' = <<NewFrame>>
    /\ entered' = 0
    /\ fallbacks' = 0
    /\ submissions' = <<>>
    /\ last' = NoDecision
    /\ UNCHANGED inputs

RerunNext == Next \/ Rerun

\* re-running: the widest tree, no pre-existing configuration or one at
\* r/a or r/a/c, build targets in r/ab and r/a/d at most, glob unset or set
RerunInit ==
    /\ tree = Everywhere
    /\ reported \in {<<>>, <<DirA>>, <<DirAC>>}
    /\ targets \in [tree -> {<<>>, <<NameX>>}]
    /\ \A d \in tree \ {DirAB, DirAD} : targets[d] = <<>>
    /\ arguments \in [glob : {None, Some(MaxThreshold)},
                      fixme_threshold : {Some(MaxThreshold)},
                      lint : BOOLEAN, no_commit : {FALSE}]
    /\ Constructed

RerunSpec == RerunInit /\ [][RerunNext]_vars

\* ------------------------------------------------- configuration documents
NameY == <<"y">>

\* the name lists a build file may declare, one of them repeating a name
NameLists == {<<>>, <<NameX>>, <<NameX, NameY>>, <<NameX, NameX>>}

\* writing configurations: r and r/a, up to MaxConfigs pre-existing
\* configurations, any name list in any build file, glob unset or set
WriteInit ==
    /\ tree = {Root, DirA}
    /\ reported \in Arrangements(tree, MaxConfigs)
    /\ targets \in [tree -> NameLists]
    /\ arguments \in [glob : {None, Some(MaxThreshold)},
                      fixme_threshold : {Some(MaxThreshold)},
                      lint : BOOLEAN, no_commit : {FALSE}]
    /\ Constructed

WriteSpec == WriteInit /\ [][Next]_vars

\* ================================================================= claims
InitialCopy == CleanCopy([d \in Range(reported) |-> ExistingDocument(d)])

Restarted == stack # <<>> /\ Len(stack) > 1 /\ top.pc = "start"

\* C1: the glob-threshold fallback fires at most once in an invocation, and
\* once it has fired glob mode stays disabled, so no later file triggers it
\* again whatever its error count.
BoundedFallback ==
    /\ fallbacks <= 1
    /\ fallbacks = 1 => glob = None

\* after the fallback, a file above the original glob threshold is handled
\* without another fallback
BoundedFallbackWitness ==
    /\ fallbacks = 1
    /\ last.made
    /\ last.outcome # "fallback"
    /\ Truthy(arguments.glob)
    /\ last.error_count > arguments.glob[1]

\* C2: every invocation reaches the end of run() (the hand-off done, no
\* frame left), and the body of run() is entered at most twice, the
\* recursion never deeper than two frames.
RunTerminates ==
    /\ <>Done
    /\ [](entered <= 2 /\ Len(stack) <= 2)

\* an invocation that restarted once has ended
RunTerminatesWitness == Done /\ entered = 2 /\ fallbacks = 1

\* C3: after the fallback fires in a run, that run converts no further
\* directory: no write, strip, check or suppression by a frame that fell back.
FallbackAbortsRun ==
    \A n \in 1..Len(stack) :
        stack[n].fellBack => stack[n].pc \notin {"write", "strip", "check", "eval"}

\* C4: submit_changes is called exactly once per invocation, after all the
\* directory visits.
SubmittedOnce ==
    /\ Len(submissions) <= 1
    /\ Done => Len(submissions) = 1

\* C5: when the restarted run starts, the working copy holds none of the
\* changes made since the invocation began and glob mode is disabled.
RestartFromCleanCopy == Restarted => (wc = InitialCopy /\ glob = None)

\* the restart follows a breach by a later file of a later directory
RestartFromCleanCopyWitness ==
    /\ Restarted
    /\ last.made
    /\ last.outcome = "fallback"
    /\ last.file > 1
    /\ stack[1].converted # <<>>
    /\ \E n \in 1..Len(stack[1].converted) : find_targets(stack[1].converted[n]) # <<>>

\* C6: with a fixme threshold T configured, a file (not falling back) with
\* exactly T errors is suppressed inline and one with T + 1 errors gets a
\* file-level ignore.
FixmeBoundary ==
    (last.made /\ last.outcome # "fallback" /\ arguments.fixme_threshold # None)
    => LET T == arguments.fixme_threshold[1]
       IN  /\ last.error_count = T => last.outcome = "suppress"
           /\ last.error_count = T + 1 => last.outcome = "ignore"

\* C7: with a glob threshold G configured and glob mode not yet disabled, a
\* file with exactly G errors does not fall back and one with G + 1 does.
GlobBoundary ==
    (last.made /\ arguments.glob # None /\ last.glob_threshold = arguments.glob)
    => LET G == arguments.glob[1]
       IN  /\ last.error_count = G => last.outcome # "fallback"
           /\ last.error_count = G + 1 => last.outcome = "fallback"

\* C8: the resolver's list is sorted by (number of components, lexical).
IsSorted(seq) ==
    \A m, n \in 1..Len(seq) : m < n => ~KeyLess(seq[n], seq[m])

CoverageSorted ==
    \A n \in 1..Len(stack) :
        stack[n].pc # "start" => IsSorted(stack[n].directories)

\* C9: at the end of a pass, every directory beneath the root that has
\* targets lies at or beneath a directory converted in that pass.
CoverageComplete ==
    \A n \in 1..Len(stack) :
        (stack[n].pc = "visit" /\ stack[n].i > Len(stack[n].directories))
        => \A d \in tree \ {Root} :
               targets[d] # <<>>
               => \E c \in Range(stack[n].converted) : IsUnder(d, c)

\* C10: no two directories converted in one pass (targets found, a
\* configuration written for each) are nested.
CoverageUnique ==
    \A n \in 1..Len(stack) :
        \A a, b \in 1..Len(stack[n].converted) :
            (/\ a # b
             /\ find_targets(stack[n].converted[a]) # <<>>
             /\ find_targets(stack[n].converted[b]) # <<>>)
            => ~IsUnder(stack[n].converted[a], stack[n].converted[b])

\* the configurations the latest completed invocation left
Before == completed[Len(completed)]

\* C11: a second invocation with the same arguments and the same
\* discovered targets, on the tree a completed first invocation left, ends
\* with the same configuration files holding the same target lists (neither
\* invocation having fallen back, so that both select the same mode).
Idempotent ==
    (Done /\ completed # <<>> /\ fallbacks = 0 /\ Before.fallbacks = 0)
    => wc.configs = Before.configs

\* the conversion of the current directory is about to write, a
\* configuration existing there already
Amending ==
    /\ stack # <<>>
    /\ top.pc = "write"
    /\ directory \in DOMAIN wc.configs

\* the elements of new that are not in existing, each once, in order
RECURSIVE NotPresent(_, _)
NotPresent(new, existing) ==
    IF new = <<>> THEN <<>>
    ELSE LET rest == NotPresent(SubSeq(new, 1, Len(new) - 1), existing)
             t == new[Len(new)]
         IN  IF t \in Range(existing) \/ t \in Range(rest)
             THEN rest ELSE Append(rest, t)

\* C12: amending an existing configuration writes the existing targets
\* followed by the new targets not already present, drops no existing target
\* and leaves every other field of the document as it was.
MergeCorrect ==
    [][Amending =>
        LET old == wc.configs[directory]
            new == wc'.configs[directory]
        IN  /\ new.targets = old.targets \o NotPresent(top.new_targets, old.targets)
            /\ Range(old.targets) \subseteq Range(new.targets)
            /\ DOMAIN new = DOMAIN old
            /\ \A f \in DOMAIN old \ {"targets"} : new[f] = old[f]]_vars

\* an existing configuration was amended with new targets of which it held
\* one already
MergeCorrectWitness ==
    /\ stack # <<>>
    /\ top.pc = "strip"
    /\ directory \in Range(reported)
    /\ "strict" \in DOMAIN wc.configs[directory]
    /\ Len(top.new_targets) > 1
    /\ ExistingDocument(directory).targets[1] \in Range(top.new_targets)
    /\ Len(wc.configs[directory].targets) > 1

\* a sequence holds no element twice
NoRepeats(seq) == \A a, b \in 1..Len(seq) : seq[a] = seq[b] => a = b

\* C13: no configuration document written by a conversion, created or
\* amended, in glob or explicit mode, holds a target string twice, whatever
\* name lists were discovered.
NoDuplicateTargets ==
    \A d \in DOMAIN wc.configs : NoRepeats(wc.configs[d].targets)

\* discovery is about to find nothing for the current directory
NothingToDiscover ==
    /\ stack # <<>>
    /\ top.pc = "discover"
    /\ find_targets(directory) = <<>>

\* C14: a directory for which discovery returns nothing is skipped without
\* any effect (no configuration, registration, strip, check, format,
\* suppression, ignore or fallback); the run goes on to the next directory
\* and still hands the changeset off.
SkipWithoutEffect ==
    /\ [][NothingToDiscover =>
            /\ wc' = wc
            /\ head' = head
            /\ glob' = glob
            /\ fallbacks' = fallbacks
            /\ submissions' = submissions
            /\ Len(stack') = Len(stack)
            /\ stack'[Len(stack)].pc = "visit"
            /\ stack'[Len(stack)].i = top.i + 1
            /\ stack'[Len(stack)].directories = top.directories]_vars
    /\ [](Done => submissions # <<>>)

\* a directory was skipped for want of targets and the next one is being
\* converted
SkipWithoutEffectWitness ==
    /\ stack # <<>>
    /\ top.pc = "strip"
    /\ top.converted # <<>>
    /\ find_targets(top.converted[1]) = <<>>
    /\ wc.cleaned = {}

\* the directories at or beneath d whose build file declares targets, in
\* the order of the discovered mapping
Declaring(d) ==
    SelectSeq(UniverseAscending,
              LAMBDA e : e \in tree /\ IsUnder(e, d) /\ targets[e] # <<>>)

\* "//dir:name" for each name of each directory of dirs, in order
RECURSIVE Labels(_)
Labels(dirs) ==
    IF dirs = <<>> THEN <<>>
    ELSE Labels(SubSeq(dirs, 1, Len(dirs) - 1))
         \o [n \in 1..Len(targets[dirs[Len(dirs)]]) |->
                <<"/", "/">> \o Str(dirs[Len(dirs)]) \o <<":">>
                \o targets[dirs[Len(dirs)]][n]]

ModeSelectionGlobWitness ==
    /\ stack # <<>>
    /\ top.pc = "write"
    /\ Truthy(glob)
    /\ Len(top.targets_files) > Len(Declaring(directory))

\* C16: every directory of the coverage set the loop has passed was
\* converted itself or lies in the subtree (by path components) of a
\* directory converted in the same run; sharing a name prefix with a
\* converted directory gets none skipped.
SkipOnlySubsumed ==
    \A n \in 1..Len(stack) :
        \A j \in 1..Len(stack[n].directories) :
            j < stack[n].i
            => \E c \in Range(stack[n].converted) :
                   IsUnder(stack[n].directories[j], c)

\* the file under evaluation: its entry in the suppressions and ignores
Entry == <<directory, top.k>>

\* C17: each (file, errors) pair gets one of three decisions, in reported
\* order, the fallback first: a file above the glob threshold the
\* conversion read (also when above the fixme threshold) falls back and is
\* neither ignored nor suppressed; any other file is ignored when above the
\* fixme threshold and suppressed inline otherwise, never both; and the
\* conversion that fell back touches no file afterwards.
ThresholdPolicy ==
    /\ [][Evaluating =>
            LET G == top.glob_threshold
                T == arguments.fixme_threshold
                aboveGlob == G # None /\ last'.error_count > G[1]
                aboveFixme == T # None /\ last'.error_count > T[1]
            IN  /\ last'.made
                /\ last'.file = top.k
                /\ last'.outcome =
                       IF aboveGlob THEN "fallback"
                       ELSE IF aboveFixme THEN "ignore" ELSE "suppress"
                /\ last'.outcome = "fallback" =>
                       /\ Entry \notin wc'.ignored \cup wc'.suppressed
                       /\ fallbacks' = fallbacks + 1
                /\ last'.outcome = "ignore" =>
                       /\ wc'.ignored = wc.ignored \cup {Entry}
                       /\ wc'.suppressed = wc.suppressed
                       /\ stack'[Len(stack)].k = top.k + 1
                /\ last'.outcome = "suppress" =>
                       /\ wc'.suppressed = wc.suppressed \cup {Entry}
                       /\ wc'.ignored = wc.ignored
                       /\ stack'[Len(stack)].k = top.k + 1]_vars
    /\ [][(stack # <<>> /\ top.pc = "restarting") =>
            /\ wc' = wc
            /\ stack'[Len(stack)].pc = "visit"]_vars

\* the steps of one conversion come in the order write, strip, check, then
\* the decisions, then the formatter
InOrder(steps) ==
    \A j \in 1..Len(steps) :
        /\ j = 1 => steps[j] = "write"
        /\ j = 2 => steps[j] = "strip"
        /\ j = 3 => steps[j] = "check"
        /\ j > 3 => \/ steps[j] = "decide"
                    \/ steps[j] = "format" /\ j = Len(steps)

\* the formatter is being run by this step
Formatting ==
    /\ stack # <<>>
    /\ Len(stack') = Len(stack)
    /\ stack'[Len(stack)].steps # top.steps
    /\ stack'[Len(stack)].steps # <<>>
    /\ stack'[Len(stack)].steps[Len(stack'[Len(stack)].steps)] = "format"

\* C18: in every conversion that finds targets the configuration is written
\* once, before any build file is stripped; the strip and the ignore
\* clean-up come before the checker, the checker before any suppression,
\* file-level ignore or fallback, and the formatter only after the decision
\* for every reported file.
StepOrder ==
    /\ [](\A n \in 1..Len(stack) :
            /\ InOrder(stack[n].steps)
            /\ stack[n].pc = "strip" =>
                   /\ stack[n].steps = <<"write">>
                   /\ stack[n].directories[stack[n].i] \in DOMAIN wc.configs
            /\ stack[n].pc = "check" =>
                   /\ stack[n].steps = <<"write", "strip">>
                   /\ stack[n].directories[stack[n].i] \in wc.cleaned
                   /\ Range(stack[n].targets_files) \subseteq wc.stripped
            /\ stack[n].pc = "eval" =>
                   Len(stack[n].steps) = 2 + stack[n].k)
    /\ [][Formatting =>
            /\ top.k = top.files + 1
            /\ Len(top.steps) = 3 + top.files
            /\ \A j \in 4..Len(top.steps) : top.steps[j] = "decide"]_vars

\* a conversion went through every step: two files decided, then formatted
StepOrderWitness ==
    /\ stack # <<>>
    /\ top.pc = "visit"
    /\ top.steps = <<"write", "strip", "check", "decide", "decide", "format">>
    /\ wc.suppressed # {}
    /\ wc.ignored # {}

\* the conversion of the current directory is about to write
Writing ==
    /\ stack # <<>>
    /\ top.pc = "write"

\* C19: a configuration is registered with version control exactly when the
\* conversion created it: a write that amends registers nothing, a write
\* that creates registers the new file, whose document is just the targets
\* field holding the new target list; nothing else registers anything.
RegisteredIffCreated ==
    /\ [][Writing =>
            IF directory \in DOMAIN wc.configs
            THEN wc'.added = wc.added
            ELSE /\ directory \notin wc.added
                 /\ wc'.added = wc.added \cup {directory}
                 /\ wc'.configs[directory] = [targets |-> top.new_targets]]_vars
    /\ [][~Writing => wc'.added \subseteq wc.added]_vars

\* one invocation amended a pre-existing configuration and created another
RegisteredIffCreatedWitness ==
    /\ stack # <<>>
    /\ top.pc = "strip"
    /\ directory \in wc.added
    /\ \E d \in Range(reported) :
           /\ d \in Range(top.converted)
           /\ find_targets(d) # <<>>
           /\ d \notin wc.added

====
